---- MODULE Spec2Model ----
(***************************************************************************)
(* The pizza workshop agent: the tool-call dispatcher handle_tool_calls,   *)
(* the CLI chat loop that drives it against the agent service              *)
(* (src/agent.py), and the HTTP facade over the pizza estimator            *)
(* (src/pizza_api.py).                                                     *)
(***************************************************************************)
EXTENDS Integers, Sequences, FiniteSets, TLC

(***************************************************************************)
(* Bounds of the model.                                                    *)
(***************************************************************************)
\* items in one service response
MaxItems == 2
\* follow-up rounds the service may ask for within one user turn
MaxRounds == 2
\* largest people_count submitted to the estimator
MaxPeople == 24

None == "None"

(***************************************************************************)
(* JSON.  A text is a sequence of tokens; a value is an integer, a string, *)
(* an array or an object (a sequence of <<key, value>> pairs, in           *)
(* insertion order as in a Python dict).                                   *)
(***************************************************************************)
P(s) == [t |-> "punct", s |-> s, n |-> 0]
S(s) == [t |-> "string", s |-> s, n |-> 0]
N(n) == [t |-> "number", s |-> "", n |-> n]

JInt(n) == [t |-> "int", n |-> n, s |-> "", m |-> <<>>]
JStr(s) == [t |-> "str", n |-> 0, s |-> s, m |-> <<>>]
JArr(m) == [t |-> "arr", n |-> 0, s |-> "", m |-> m]
JObj(m) == [t |-> "obj", n |-> 0, s |-> "", m |-> m]
JSONDecodeError == [t |-> "JSONDecodeError", n |-> 0, s |-> "", m |-> <<>>]

IsScalarTok(tok) == tok.t \in {"number", "string"}
ScalarOf(tok) == IF tok.t = "number" THEN JInt(tok.n) ELSE JStr(tok.s)

\* The members of an object between its braces: key : scalar (, key : scalar)*
RECURSIVE ParseMembers(_)
ParseMembers(toks) ==
    IF Len(toks) < 3 THEN JSONDecodeError
    ELSE IF ~(toks[1].t = "string" /\ toks[2] = P(":") /\ IsScalarTok(toks[3]))
         THEN JSONDecodeError
    ELSE LET pair == <<toks[1].s, ScalarOf(toks[3])>>
         IN  IF Len(toks) = 3 THEN JObj(<<pair>>)
             ELSE IF toks[4] # P(",") THEN JSONDecodeError
             ELSE LET rest == ParseMembers(SubSeq(toks, 5, Len(toks)))
                  IN  IF rest.t = "JSONDecodeError" THEN JSONDecodeError
                      ELSE JObj(<<pair>> \o rest.m)

\* The elements of an array between its brackets: scalar (, scalar)*
RECURSIVE ParseElements(_)
ParseElements(toks) ==
    IF Len(toks) < 1 \/ ~IsScalarTok(toks[1]) THEN JSONDecodeError
    ELSE IF Len(toks) = 1 THEN JArr(<<ScalarOf(toks[1])>>)
    ELSE IF toks[2] # P(",") THEN JSONDecodeError
    ELSE LET rest == ParseElements(SubSeq(toks, 3, Len(toks)))
         IN  IF rest.t = "JSONDecodeError" THEN JSONDecodeError
             ELSE JArr(<<ScalarOf(toks[1])>> \o rest.m)

\* json.loads on texts whose containers hold scalars only
json_loads(toks) ==
    IF Len(toks) = 0 THEN JSONDecodeError
    ELSE IF Len(toks) = 1
         THEN IF IsScalarTok(toks[1]) THEN ScalarOf(toks[1]) ELSE JSONDecodeError
    ELSE IF toks[1] = P("{") /\ toks[Len(toks)] = P("}")
         THEN IF Len(toks) = 2 THEN JObj(<<>>)
              ELSE ParseMembers(SubSeq(toks, 2, Len(toks) - 1))
    ELSE IF toks[1] = P("[") /\ toks[Len(toks)] = P("]")
         THEN IF Len(toks) = 2 THEN JArr(<<>>)
              ELSE ParseElements(SubSeq(toks, 2, Len(toks) - 1))
    ELSE JSONDecodeError

RECURSIVE json_dumps(_)
RECURSIVE DumpMembers(_)
RECURSIVE DumpElements(_)
DumpMembers(m) ==
    IF Len(m) = 0 THEN <<>>
    ELSE <<S(m[1][1]), P(":")>> \o json_dumps(m[1][2])
         \o (IF Len(m) = 1 THEN <<>> ELSE <<P(",")>> \o DumpMembers(Tail(m)))
DumpElements(m) ==
    IF Len(m) = 0 THEN <<>>
    ELSE json_dumps(m[1])
         \o (IF Len(m) = 1 THEN <<>> ELSE <<P(",")>> \o DumpElements(Tail(m)))
json_dumps(v) ==
    IF v.t = "int" THEN <<N(v.n)>>
    ELSE IF v.t = "str" THEN <<S(v.s)>>
    ELSE IF v.t = "arr" THEN <<P("[")>> \o DumpElements(v.m) \o <<P("]")>>
    ELSE <<P("{")>> \o DumpMembers(v.m) \o <<P("}")>>

\* dict lookup: the value of the last pair with this key
HasKey(m, k) == \E i \in 1..Len(m) : m[i][1] = k
Get(m, k) == m[CHOOSE i \in 1..Len(m) :
                 m[i][1] = k /\ \A j \in (i+1)..Len(m) : m[j][1] # k][2]
Keys(m) == {m[i][1] : i \in 1..Len(m)}

(***************************************************************************)
(* The estimator tools.calculate_pizza_for_people.  Its result is a JSON   *)
(* object; a raise is reported as [ok |-> FALSE, exc |-> ...].             *)
(***************************************************************************)
slices_per_pizza == 8
AppetiteLevels == {"light", "normal", "heavy"}
rate(appetite_level) ==
    CASE appetite_level = "light" -> 2
      [] appetite_level = "normal" -> 3
      [] appetite_level = "heavy" -> 4

Returned(v) == [ok |-> TRUE, value |-> v, exc |-> None]
Raised(e) == [ok |-> FALSE, value |-> JInt(0), exc |-> e]

calculate_pizza_for_people(people_count, appetite_level) ==
    IF people_count.t # "int" \/ appetite_level.t # "str"
    THEN Raised("InvalidArgument")
    ELSE IF people_count.n <= 0 \/ appetite_level.s \notin AppetiteLevels
    THEN Raised("InvalidArgument")
    ELSE LET total_slices == people_count.n * rate(appetite_level.s)
             pizza_count == (total_slices + slices_per_pizza - 1) \div slices_per_pizza
         IN  Returned(JObj(<< <<"pizza_count", JInt(pizza_count)>>,
                              <<"slices_per_person", JInt(rate(appetite_level.s))>> >>))

\* func(**kwargs) for the estimator: Python binds the keywords to the
\* parameters (people_count, appetite_level = "normal") before the body runs.
ParamNames == {"people_count", "appetite_level"}
CallWithKeywords(kwargs) ==
    IF ~(Keys(kwargs) \subseteq ParamNames) \/ ~HasKey(kwargs, "people_count")
    THEN Raised("TypeError")
    ELSE calculate_pizza_for_people(
             Get(kwargs, "people_count"),
             IF HasKey(kwargs, "appetite_level")
             THEN Get(kwargs, "appetite_level") ELSE JStr("normal"))

(***************************************************************************)
(* src/pizza_api.py: POST /calculate_pizza.                                *)
(***************************************************************************)
PizzaRequest(people_count, appetite_level) ==
    [people_count |-> people_count,
     appetite_level |-> IF appetite_level = None THEN "normal" ELSE appetite_level]

calculate_pizza_fixed_appetite(req) ==
    LET result == calculate_pizza_for_people(JInt(req.people_count), JStr("normal"))
    IN  IF result.ok THEN Returned(JObj(<< <<"recommendation", result.value>> >>))
        ELSE result

calculate_pizza(req) ==
    LET result == calculate_pizza_for_people(JInt(req.people_count),
                                             JStr(req.appetite_level))
    IN  IF result.ok THEN Returned(JObj(<< <<"recommendation", result.value>> >>))
        ELSE result

(***************************************************************************)
(* src/agent.py: the function registry and handle_tool_calls.              *)
(***************************************************************************)
FUNCTIONS == [name \in {"calculate_pizza_for_people"} |-> "calculate_pizza_for_people"]
FUNCTIONS_get(name) == IF name \in DOMAIN FUNCTIONS THEN FUNCTIONS[name] ELSE None

FunctionCallOutput(call_id, output) == [call_id |-> call_id, output |-> output]
McpApprovalResponse(approve, approval_request_id) ==
    [approve |-> approve, approval_request_id |-> approval_request_id]

UnknownResult == JObj(<< <<"error", JStr("Unknown")>> >>)
ResultPayload(result) == json_dumps(JObj(<< <<"result", result>> >>))

\* What one iteration of the for loop leaves: the list, the handler
\* invocations so far, and the exception raised, if any.
Step(raised, inputs, calls) == [raised |-> raised, inputs |-> inputs, calls |-> calls]

function_call_output_by_item_id(item, result) ==
    FunctionCallOutput(item.id, ResultPayload(result))

\* lines 21-22
function_call_output(item, result) ==
    FunctionCallOutput(item.call_id, ResultPayload(result))

invoke_swallowing_decode_error(item, k, func, inputs, calls) ==
    LET kwargs == json_loads(item.arguments)
    IN  IF kwargs.t = "JSONDecodeError"
        THEN Step(None, Append(inputs, function_call_output(item, UnknownResult)), calls)
        ELSE IF kwargs.t # "obj" THEN Step("TypeError", inputs, calls)
        ELSE LET result == CallWithKeywords(kwargs.m)
                 called == Append(calls, [k |-> k, func |-> func, kwargs |-> kwargs.m])
             IN  IF ~result.ok THEN Step(result.exc, inputs, called)
                 ELSE Step(None, Append(inputs, function_call_output(item, result.value)),
                           called)

\* func(**json.loads(item.arguments)) for a registered func, and the append
invoke(item, k, func, inputs, calls) ==
    LET kwargs == json_loads(item.arguments)
    IN  IF kwargs.t = "JSONDecodeError" THEN Step("JSONDecodeError", inputs, calls)
        ELSE IF kwargs.t # "obj" THEN Step("TypeError", inputs, calls)
        ELSE LET result == CallWithKeywords(kwargs.m)
                 called == Append(calls, [k |-> k, func |-> func, kwargs |-> kwargs.m])
             IN  IF ~result.ok THEN Step(result.exc, inputs, called)
                 ELSE Step(None, Append(inputs, function_call_output(item, result.value)),
                           called)

handle_function_call_parsing_first(item, k, inputs, calls) ==
    LET func == FUNCTIONS_get(item.name)
    IN  IF json_loads(item.arguments).t = "JSONDecodeError"
        THEN Step("JSONDecodeError", inputs, calls)
        ELSE IF func = None
        THEN Step(None, Append(inputs, function_call_output(item, UnknownResult)), calls)
        ELSE invoke(item, k, func, inputs, calls)

\* lines 19-22: the conditional expression evaluates json.loads only when
\* the name is registered
handle_function_call(item, k, inputs, calls) ==
    LET func == FUNCTIONS_get(item.name)
    IN  IF func = None
        THEN Step(None, Append(inputs, function_call_output(item, UnknownResult)), calls)
        ELSE invoke(item, k, func, inputs, calls)

DestructiveTools == {"delete_order_by_id"}
mcp_approval_response_by_policy(item) ==
    McpApprovalResponse(item.name \notin DestructiveTools, item.id)

\* line 24
mcp_approval_response(item) == McpApprovalResponse(TRUE, item.id)

handle_item_forwarding_every_other_type(item, k, inputs, calls) ==
    IF item.type = "function_call" THEN handle_function_call(item, k, inputs, calls)
    ELSE Step(None, Append(inputs, mcp_approval_response(item)), calls)

\* lines 18-24: the body of the for loop on the k-th item of response.output
handle_item(item, k, inputs, calls) ==
    IF item.type = "function_call" THEN handle_function_call(item, k, inputs, calls)
    ELSE IF item.type = "mcp_approval_request"
    THEN Step(None, Append(inputs, mcp_approval_response(item)), calls)
    ELSE Step(None, inputs, calls)

(***************************************************************************)
(* The agent service and the user: what they may send.                     *)
(***************************************************************************)
ConversationIds == {"conv_1", "conv_2"}
ResponseHeads == {[id |-> "resp_a", output_text |-> "text_a"],
                  [id |-> "resp_b", output_text |-> "text_b"]}

\* {"people_count": 10, "appetite_level": "heavy"}
ArgsGood == <<P("{"), S("people_count"), P(":"), N(10), P(","),
              S("appetite_level"), P(":"), S("heavy"), P("}")>>
\* {"people_count": 10,          (cut short)
ArgsTruncated == <<P("{"), S("people_count"), P(":"), N(10), P(",")>>
\* [10, "heavy"]                 (well-formed, not an object)
ArgsArray == <<P("["), N(10), P(","), S("heavy"), P("]")>>
\* {"people_count": 0, "appetite_level": "heavy"}
ArgsZeroPeople == <<P("{"), S("people_count"), P(":"), N(0), P(","),
                    S("appetite_level"), P(":"), S("heavy"), P("}")>>
ArgTexts == {ArgsGood, ArgsTruncated, ArgsArray, ArgsZeroPeople}

FunctionNames == {"calculate_pizza_for_people", "get_weather"}
RemoteTools == {"place_order", "delete_order_by_id"}

\* An item of response.output without its identifiers
ItemShapes ==
    [type : {"function_call"}, name : FunctionNames, arguments : ArgTexts]
    \cup [type : {"mcp_approval_request"}, name : RemoteTools, arguments : {<<>>}]
    \cup [type : {"message"}, name : {""}, arguments : {<<>>}]

\* The service gives every item of a response its own id (and every
\* function call its own call_id)
ItemAt(shape, k) ==
    [type |-> shape.type, name |-> shape.name, arguments |-> shape.arguments,
     id |-> <<"item", k>>, call_id |-> <<"call", k>>]
Outputs ==
    UNION {{[k \in 1..n |-> ItemAt(shapes[k], k)] : shapes \in [1..n -> ItemShapes]}
           : n \in 0..MaxItems}

IsPending(item) == item.type \in {"function_call", "mcp_approval_request"}
HasPending(output) == \E k \in 1..Len(output) : IsPending(output[k])

\* Input lines, as sequences of characters
Upper == <<"A","B","C","D","E","F","G","H","I","J","K","L","M",
           "N","O","P","Q","R","S","T","U","V","W","X","Y","Z">>
LowerCase == <<"a","b","c","d","e","f","g","h","i","j","k","l","m",
               "n","o","p","q","r","s","t","u","v","w","x","y","z">>
lower_char(c) ==
    IF \E n \in 1..26 : Upper[n] = c
    THEN LowerCase[CHOOSE n \in 1..26 : Upper[n] = c] ELSE c
lower(line) == [n \in 1..Len(line) |-> lower_char(line[n])]

Lines == { <<"e","x","i","t">>, <<"E","X","I","T">>, <<"Q","u","i","t">>,
           <<"q","u","i","t">>, <<"e","x","i","t"," ">>, <<"h","i">> }

is_exit_case_sensitive(user_input) ==
    user_input \in {<<"e","x","i","t">>, <<"q","u","i","t">>}

\* line 75
is_exit(user_input) ==
    lower(user_input) \in {<<"e","x","i","t">>, <<"q","u","i","t">>}

(***************************************************************************)
(* State.                                                                  *)
(***************************************************************************)
VARIABLES
    pc,            \* where the script is
    conversation,  \* conversation.id, line 70
    user_input,    \* line 74
    request,       \* the call of responses.create the service has not answered yet
    response,      \* line 78 / 87
    pos,           \* the item of response.output the for loop is at
    inputs,        \* the list handle_tool_calls builds, then line 85's inputs
    calls,         \* handler invocations of the running handle_tool_calls
    raised,        \* the exception that ended the script
    rounds,        \* follow-up requests sent in the current turn
    stdout,        \* the last line printed
    estimate_in,   \* the estimator front ends: the last request
    estimate_out   \*   and what it returned

chat_vars == <<pc, conversation, user_input, request, response, pos, inputs,
               calls, raised, rounds, stdout>>
estimate_vars == <<estimate_in, estimate_out>>
vars == <<chat_vars, estimate_vars>>

NoRequest == [kind |-> "none", conversation |-> None, text |-> <<>>,
              input |-> <<>>, previous_response_id |-> None]
NoResponse == [id |-> None, output |-> <<>>, output_text |-> None]
Printed(what, n, text) == [what |-> what, n |-> n, text |-> text]
NoEstimate == [via |-> None, people_count |-> 0, appetite_level |-> None]
NoOutcome == [ok |-> FALSE, body |-> <<>>]

ChatInit ==
    /\ pc = "start"
    /\ conversation = None
    /\ user_input = <<>>
    /\ request = NoRequest
    /\ response = NoResponse
    /\ pos = 1
    /\ inputs = <<>>
    /\ calls = <<>>
    /\ raised = None
    /\ rounds = 0
    /\ stdout = Printed("Agent ready", 0, None)

Init ==
    /\ ChatInit
    /\ estimate_in = NoEstimate
    /\ estimate_out = NoOutcome

(***************************************************************************)
(* The chat loop, src/agent.py lines 69-93.                                *)
(***************************************************************************)
\* lines 70-71
CreateConversation ==
    /\ pc = "start"
    /\ \E id \in ConversationIds : 
          /\ conversation' = id
          /\ stdout' = Printed("Conversation created", 0, id)
    /\ pc' = "prompt"
    /\ UNCHANGED <<user_input, request, response, pos, inputs, calls, raised, rounds>>
    /\ UNCHANGED estimate_vars

turn_request_without_conversation(conversation_id, text) ==
    [kind |-> "turn", conversation |-> None, text |-> text,
     input |-> <<>>, previous_response_id |-> None]

\* lines 78-82
turn_request(conversation_id, text) ==
    [kind |-> "turn", conversation |-> conversation_id, text |-> text,
     input |-> <<>>, previous_response_id |-> None]

follow_up_request_unchained(tool_inputs, previous) ==
    [kind |-> "follow_up", conversation |-> None, text |-> <<>>,
     input |-> tool_inputs, previous_response_id |-> None]

\* lines 87-91
follow_up_request(tool_inputs, previous) ==
    [kind |-> "follow_up", conversation |-> None, text |-> <<>>,
     input |-> tool_inputs, previous_response_id |-> previous.id]

\* lines 74-82: read a line; leave the loop on exit/quit, else submit it
ReadLine ==
    /\ pc \in {"prompt", "FINAL"}
    /\ \E line \in Lines :
          /\ user_input' = line
          /\ IF is_exit(line)
             THEN /\ pc' = "exited"
                  /\ UNCHANGED <<request, rounds>>
             ELSE /\ request' = turn_request(conversation, line)
                  /\ rounds' = 0
                  /\ pc' = "AWAITING_RESPONSE"
    /\ stdout' = Printed("You: ", 0, None)
    /\ UNCHANGED <<conversation, response, pos, inputs, calls, raised>>
    /\ UNCHANGED estimate_vars

\* The service answers the pending request with a response drawn from
\* `outputs`; the for loop of handle_tool_calls starts on it (lines 16-17).
ServiceRespondFrom(outputs) ==
    /\ pc = "AWAITING_RESPONSE"
    /\ \E head \in ResponseHeads, out \in outputs :
          /\ rounds >= MaxRounds => ~HasPending(out)
          /\ response' = [id |-> head.id, output |-> out,
                          output_text |-> head.output_text]
    /\ request' = NoRequest
    /\ pos' = 1
    /\ inputs' = <<>>
    /\ calls' = <<>>
    /\ pc' = "DISPATCHING"
    /\ UNCHANGED <<conversation, user_input, raised, rounds, stdout>>
    /\ UNCHANGED estimate_vars

ServiceRespond == ServiceRespondFrom(Outputs)

\* lines 17-24: one iteration of the for loop
DispatchItem ==
    /\ pc = "DISPATCHING"
    /\ pos <= Len(response.output)
    /\ LET step == handle_item(response.output[pos], pos, inputs, calls)
       IN  /\ inputs' = step.inputs
           /\ calls' = step.calls
           /\ raised' = step.raised
           /\ IF step.raised = None
              THEN pos' = pos + 1 /\ pc' = "DISPATCHING"
              ELSE pos' = pos /\ pc' = "raised"
    /\ UNCHANGED <<conversation, user_input, request, response, rounds, stdout>>
    /\ UNCHANGED estimate_vars

LoopTestCapped ==
    /\ pc = "DISPATCHING"
    /\ pos > Len(response.output)
    /\ IF inputs # <<>> /\ rounds = 0
       THEN /\ stdout' = Printed("Processing", Len(inputs), None)
            /\ request' = follow_up_request(inputs, response)
            /\ rounds' = rounds + 1
            /\ pc' = "AWAITING_RESPONSE"
            /\ response' = NoResponse
            /\ inputs' = <<>>
            /\ calls' = <<>>
            /\ pos' = 1
       ELSE /\ stdout' = Printed("Agent", 0, response.output_text)
            /\ pc' = "FINAL"
            /\ UNCHANGED <<request, rounds, response, inputs, calls, pos>>
    /\ UNCHANGED <<conversation, user_input, raised>>
    /\ UNCHANGED estimate_vars

\* lines 25, 85-93: handle_tool_calls returns; the while test sends the
\* follow-up request or prints the final text.  Once the follow-up is sent
\* the old response and list are dead (lines 85 and 87 overwrite them before
\* anything reads them): the model forgets them there.
LoopTest ==
    /\ pc = "DISPATCHING"
    /\ pos > Len(response.output)
    /\ IF inputs # <<>>
       THEN /\ stdout' = Printed("Processing", Len(inputs), None)
            /\ request' = follow_up_request(inputs, response)
            /\ rounds' = rounds + 1
            /\ pc' = "AWAITING_RESPONSE"
            /\ response' = NoResponse
            /\ inputs' = <<>>
            /\ calls' = <<>>
            /\ pos' = 1
       ELSE /\ stdout' = Printed("Agent", 0, response.output_text)
            /\ pc' = "FINAL"
            /\ UNCHANGED <<request, rounds, response, inputs, calls, pos>>
    /\ UNCHANGED <<conversation, user_input, raised>>
    /\ UNCHANGED estimate_vars

Next ==
    \/ CreateConversation
    \/ ReadLine
    \/ ServiceRespond
    \/ DispatchItem
    \/ LoopTest

Spec == Init /\ [][Next]_vars

\* Termination is checked with fewer kinds of item: a call that returns, a
\* call that raises, an approval request and a message.
LiveShapes ==
    { [type |-> "function_call", name |-> "calculate_pizza_for_people",
       arguments |-> ArgsGood],
      [type |-> "function_call", name |-> "calculate_pizza_for_people",
       arguments |-> ArgsTruncated],
      [type |-> "mcp_approval_request", name |-> "place_order", arguments |-> <<>>],
      [type |-> "message", name |-> "", arguments |-> <<>>] }
LiveOutputs ==
    UNION {{[k \in 1..n |-> ItemAt(shapes[k], k)] : shapes \in [1..n -> LiveShapes]}
           : n \in 0..MaxItems}
LiveServiceRespond == ServiceRespondFrom(LiveOutputs)

LiveNext ==
    \/ CreateConversation
    \/ ReadLine
    \/ LiveServiceRespond
    \/ DispatchItem
    \/ LoopTest

\* The service answers every request and the script runs on; the user may
\* stop typing.  The last conjunct is WF_vars(DispatchItem) written out:
\* DispatchItem is enabled exactly when the for loop has an item left, and
\* every step of it changes pos or pc.
DispatchEnabled == pc = "DISPATCHING" /\ pos <= Len(response.output)
LiveSpec ==
    /\ Init
    /\ [][LiveNext]_vars
    /\ WF_vars(LiveServiceRespond)
    /\ WF_vars(LoopTest)
    /\ (([]<>~DispatchEnabled) \/ ([]<><<DispatchItem>>_vars))

(***************************************************************************)
(* The two front ends of the estimator: POST /calculate_pizza and a        *)
(* function call dispatched through FUNCTIONS.                             *)
(***************************************************************************)
Outcome(ok, body) == [ok |-> ok, body |-> IF ok THEN body ELSE <<>>]

PostCalculatePizza ==
    /\ \E p \in -1..MaxPeople, level \in AppetiteLevels \cup {"bogus", None} :
          LET req == PizzaRequest(p, level)
              r == calculate_pizza(req)
          IN  /\ estimate_in' = [via |-> "http", people_count |-> p,
                                 appetite_level |-> req.appetite_level]
              /\ estimate_out' = Outcome(r.ok, json_dumps(r.value))
    /\ UNCHANGED chat_vars

DispatchPizzaCall ==
    /\ \E p \in -1..MaxPeople, level \in AppetiteLevels \cup {"bogus"} :
          LET arguments == json_dumps(JObj(<< <<"people_count", JInt(p)>>,
                                              <<"appetite_level", JStr(level)>> >>))
              item == ItemAt([type |-> "function_call",
                              name |-> "calculate_pizza_for_people",
                              arguments |-> arguments], 1)
              step == handle_item(item, 1, <<>>, <<>>)
          IN  /\ estimate_in' = [via |-> "tool", people_count |-> p,
                                 appetite_level |-> level]
              /\ estimate_out' = Outcome(step.raised = None,
                                         IF step.raised = None
                                         THEN step.inputs[1].output ELSE <<>>)
    /\ UNCHANGED chat_vars

EstimateNext ==
    \/ PostCalculatePizza
    \/ DispatchPizzaCall

EstimateSpec == Init /\ [][EstimateNext]_vars

(***************************************************************************)
(* Properties.                                                             *)
(***************************************************************************)
output == response.output
Items == 1..Len(output)
\* the k-th item has been handled by the for loop, without a raise
Handled(k) == k \in Items /\ k < pos
\* the for loop is at the k-th item, or past it
Reached(k) == k \in Items /\ (k < pos \/ (pc = "raised" /\ k = pos))
\* handle_tool_calls has returned its list (line 25)
HasReturned == pc \in {"DISPATCHING", "FINAL"} /\ pos > Len(output)
\* where the entry of the k-th item is in the list
EntryIndex(k) == Cardinality({j \in 1..k : IsPending(output[j])})
EntryOf(k) == inputs[EntryIndex(k)]
IsFunctionCallOutput(e) == DOMAIN e = {"call_id", "output"}
IsMcpApprovalResponse(e) == DOMAIN e = {"approve", "approval_request_id"}
InvocationsFor(k) == Cardinality({n \in 1..Len(calls) : calls[n].k = k})
IsRegistered(item) == item.name = "calculate_pizza_for_people"
IsMalformed(item) == json_loads(item.arguments).t = "JSONDecodeError"
HandlerAccepts(item) ==
    /\ json_loads(item.arguments).t = "obj"
    /\ CallWithKeywords(json_loads(item.arguments).m).ok
HandlerRaises(item) ==
    /\ json_loads(item.arguments).t = "obj"
    /\ ~CallWithKeywords(json_loads(item.arguments).m).ok

\* C1: the list holds exactly one entry per function_call or
\* mcp_approval_request item handled so far, in the order of the items, and
\* nothing for items of another type; so the returned list has one entry per
\* such item of response.output and is empty when there is none.
C1_OneEntryPerPendingItem ==
    pc \in {"DISPATCHING", "FINAL", "raised"} =>
        /\ Len(inputs) = Cardinality({k \in Items : Handled(k) /\ IsPending(output[k])})
        /\ \A k \in Items : Handled(k) /\ IsPending(output[k]) =>
              LET e == EntryOf(k)
              IN  IF output[k].type = "function_call"
                  THEN IsFunctionCallOutput(e) /\ e.call_id = output[k].call_id
                  ELSE IsMcpApprovalResponse(e)
                       /\ e.approval_request_id = output[k].id
        /\ (HasReturned /\ ~HasPending(output)) => inputs = <<>>

C1_Witness ==
    /\ HasReturned
    /\ Len(output) = 2
    /\ output[1].type = "message"
    /\ output[2].type = "mcp_approval_request"
    /\ Len(inputs) = 1

\* C2 as stated: every function_call item with a registered name and
\* well-formed JSON arguments (on which the handler, if it is called, does
\* not raise) is answered by a FunctionCallOutput.
C2_Original ==
    \A k \in Items :
        ( /\ Reached(k)
          /\ output[k].type = "function_call"
          /\ IsRegistered(output[k])
          /\ ~IsMalformed(output[k])
          /\ ~HandlerRaises(output[k]) )
        => /\ Handled(k)
           /\ IsFunctionCallOutput(EntryOf(k))

\* C2, amended: every function_call item with a registered name whose
\* arguments parse to a JSON object for which the handler returns a value v
\* is answered by FunctionCallOutput(call_id, dumps({"result": v})), and the
\* handler is invoked exactly once for it, with the parsed object.
C2_RegisteredCallAnswered ==
    \A k \in Items :
        ( /\ Reached(k)
          /\ output[k].type = "function_call"
          /\ IsRegistered(output[k])
          /\ HandlerAccepts(output[k]) )
        => LET kwargs == json_loads(output[k].arguments).m
               v == CallWithKeywords(kwargs).value
           IN  /\ Handled(k)
               /\ EntryOf(k) = [call_id |-> output[k].call_id,
                                output |-> json_dumps(JObj(<< <<"result", v>> >>))]
               /\ InvocationsFor(k) = 1
               /\ \A n \in 1..Len(calls) : calls[n].k = k => calls[n].kwargs = kwargs

C2_Witness ==
    /\ HasReturned
    /\ Len(output) = 2
    /\ output[1].type = "mcp_approval_request"
    /\ output[2].type = "function_call"
    /\ IsRegistered(output[2])
    /\ output[2].arguments = ArgsGood
    /\ inputs[2] = [call_id |-> <<"call", 2>>,
                    output |-> <<P("{"), S("result"), P(":"), P("{"),
                                 S("pizza_count"), P(":"), N(5), P(","),
                                 S("slices_per_person"), P(":"), N(4),
                                 P("}"), P("}")>>]
    /\ InvocationsFor(2) = 1

\* C3: a function_call item with an unregistered name never raises: it is
\* answered by an entry keyed by its call_id whose payload is the
\* unknown-tool error, no handler is invoked for it, and the loop goes on
\* with the next item.
C3_UnknownToolAnswered ==
    \A k \in Items :
        ( /\ Reached(k)
          /\ output[k].type = "function_call"
          /\ ~IsRegistered(output[k]) )
        => /\ Handled(k)
           /\ EntryOf(k) = [call_id |-> output[k].call_id,
                            output |-> <<P("{"), S("result"), P(":"), P("{"),
                                         S("error"), P(":"), S("Unknown"),
                                         P("}"), P("}")>>]
           /\ InvocationsFor(k) = 0

C3_Witness ==
    /\ HasReturned
    /\ Len(output) = 2
    /\ output[1].type = "function_call"
    /\ ~IsRegistered(output[1])
    /\ IsMalformed(output[1])
    /\ output[2].type = "function_call"
    /\ IsRegistered(output[2])
    /\ Len(inputs) = 2
    /\ InvocationsFor(2) = 1

\* C4 as stated: a function_call item with malformed arguments is never got
\* past, whatever its name: handle_tool_calls raises on it.
C4_Original ==
    \A k \in Items :
        (output[k].type = "function_call" /\ IsMalformed(output[k])) => ~Handled(k)

\* C4, amended: a function_call item with a REGISTERED name and malformed
\* arguments is fatal: handle_tool_calls raises the decode error on it,
\* returns no list, and the script sends no further request.
C4_MalformedRegisteredIsFatal ==
    /\ \A k \in Items :
        ( /\ Reached(k)
          /\ output[k].type = "function_call"
          /\ IsRegistered(output[k])
          /\ IsMalformed(output[k]) )
        => /\ pc = "raised"
           /\ pos = k
           /\ raised = "JSONDecodeError"
           /\ InvocationsFor(k) = 0
    /\ pc = "raised" => (request.kind = "none" /\ ~ENABLED Next)

C4_Witness ==
    /\ pc = "raised"
    /\ raised = "JSONDecodeError"
    /\ pos = 2
    /\ Len(inputs) = 1
    /\ IsRegistered(output[2])
    /\ rounds = 1

\* C5: every mcp_approval_request item is answered by
\* McpApprovalResponse(approve = TRUE, approval_request_id = item.id),
\* whatever the remote tool and the other items; no approval in the list or
\* in a request has approve = FALSE.
C5_AlwaysApproves ==
    /\ \A k \in Items :
        (Handled(k) /\ output[k].type = "mcp_approval_request")
        => EntryOf(k) = [approve |-> TRUE, approval_request_id |-> output[k].id]
    /\ \A n \in 1..Len(inputs) :
        IsMcpApprovalResponse(inputs[n]) => inputs[n].approve = TRUE
    /\ \A n \in 1..Len(request.input) :
        IsMcpApprovalResponse(request.input[n]) => request.input[n].approve = TRUE

C5_Witness ==
    /\ pc = "AWAITING_RESPONSE"
    /\ Len(request.input) = 2
    /\ IsFunctionCallOutput(request.input[1])
    /\ request.input[2] = [approve |-> TRUE, approval_request_id |-> <<"item", 2>>]

\* C6: the final text is printed only for a response on which
\* handle_tool_calls returned an empty list; a non-empty list is followed by
\* exactly one follow-up request carrying that list and the id of the
\* response just resolved; the answer to a request is what is resolved next;
\* and a turn moves only AWAITING_RESPONSE -> DISPATCHING ->
\* AWAITING_RESPONSE | FINAL (or ends in a raise).
C6_PrintedOnlyOnEmpty ==
    pc = "FINAL" =>
        /\ HasReturned
        /\ inputs = <<>>
        /\ stdout = [what |-> "Agent", n |-> 0, text |-> response.output_text]
C6_Transitions ==
    { <<"AWAITING_RESPONSE", "DISPATCHING">>, <<"DISPATCHING", "DISPATCHING">>,
      <<"DISPATCHING", "AWAITING_RESPONSE">>, <<"DISPATCHING", "FINAL">>,
      <<"DISPATCHING", "raised">> }
C6_Step ==
    /\ pc \in {"AWAITING_RESPONSE", "DISPATCHING"} => <<pc, pc'>> \in C6_Transitions
    /\ (HasReturned /\ pc = "DISPATCHING" /\ inputs # <<>>) =>
          /\ pc' = "AWAITING_RESPONSE"
          /\ request'.kind = "follow_up"
          /\ request'.input = inputs
          /\ request'.previous_response_id = response.id
          /\ rounds' = rounds + 1
    /\ (HasReturned /\ pc = "DISPATCHING" /\ inputs = <<>>) =>
          /\ pc' = "FINAL"
          /\ request' = request
          /\ rounds' = rounds
    /\ (pc = "DISPATCHING" /\ ~HasReturned) => (request' = request /\ rounds' = rounds)
    /\ pc = "AWAITING_RESPONSE" =>
          /\ request.kind # "none"
          /\ request'.kind = "none"
          /\ response'.id # None
          /\ pos' = 1
          /\ inputs' = <<>>
          /\ rounds' = rounds
C6_DispatchLoop == [](C6_PrintedOnlyOnEmpty) /\ [][C6_Step]_vars

C6_Witness ==
    /\ pc = "FINAL"
    /\ rounds = 2
    /\ response.id = "resp_b"

\* C7: the conversation id is obtained once, before the first turn, and is
\* never reassigned; every request that submits the user's text carries it.
C7_Inv ==
    /\ pc # "start" => conversation \in ConversationIds
    /\ pc = "start" => request.kind = "none"
    /\ request.kind = "turn" => request.conversation = conversation
C7_Step ==
    /\ conversation' # conversation => (pc = "start" /\ conversation = None)
C7_OneConversation == [](C7_Inv) /\ [][C7_Step]_vars

C7_Witness ==
    /\ pc = "AWAITING_RESPONSE"
    /\ request.kind = "turn"
    /\ request.conversation = "conv_2"
    /\ response.id # None

\* C8: a line equal to "exit" or "quit" up to the case of its letters ends
\* the loop and nothing is sent; any other line is sent as the user's turn;
\* and a line is read only at the start or right after a reply was printed.
OneOf(c, lo, up) == c = lo \/ c = up
IsExitOrQuit(line) ==
    /\ Len(line) = 4
    /\ \/ /\ OneOf(line[1], "e", "E") /\ OneOf(line[2], "x", "X")
          /\ OneOf(line[3], "i", "I") /\ OneOf(line[4], "t", "T")
       \/ /\ OneOf(line[1], "q", "Q") /\ OneOf(line[2], "u", "U")
          /\ OneOf(line[3], "i", "I") /\ OneOf(line[4], "t", "T")
C8_Inv ==
    /\ pc = "exited" => (IsExitOrQuit(user_input) /\ request.kind = "none")
    /\ pc \in {"AWAITING_RESPONSE", "DISPATCHING", "FINAL", "raised"}
          => ~IsExitOrQuit(user_input)
    /\ request.kind = "turn" => request.text = user_input
    /\ pc = "FINAL" => stdout.what = "Agent"
C8_ReadStep == stdout'.what = "You: " /\ stdout.what # "You: "
C8_Step ==
    /\ C8_ReadStep =>
          /\ stdout.what \in {"Conversation created", "Agent"}
          /\ IF IsExitOrQuit(user_input')
             THEN pc' = "exited" /\ request'.kind = "none"
             ELSE pc' = "AWAITING_RESPONSE" /\ request'.kind = "turn"
                  /\ request'.text = user_input'
    /\ (request'.kind = "turn" /\ request.kind # "turn") => C8_ReadStep
    /\ (pc' = "exited" /\ pc # "exited") => C8_ReadStep
C8_ExitOrSend == [](C8_Inv) /\ [][C8_Step]_vars

C8_Witness ==
    /\ pc = "exited"
    /\ user_input = <<"Q", "u", "i", "t">>
    /\ response.id # None

\* C9: for p >= 1 and appetite_level in {light, normal, heavy}, both front
\* ends return pizza_count = ceiling(p * rate / 8) with rate light = 2,
\* normal = 3, heavy = 4, and no smaller p gives a larger pizza_count.
PizzaCountIn(body) ==
    body[(CHOOSE n \in 1..Len(body) : body[n] = S("pizza_count")) + 2].n
IsCeilingOfQuotient(c, num, den) == c * den >= num /\ (c - 1) * den < num
ClaimedRate(level) == IF level = "light" THEN 2 ELSE IF level = "normal" THEN 3 ELSE 4
PizzaCountFor(q, level) ==
    Get(calculate_pizza_for_people(JInt(q), JStr(level)).value.m, "pizza_count").n
C9_PizzaCount ==
    ( /\ estimate_in.via # None
      /\ estimate_in.people_count >= 1
      /\ estimate_in.appetite_level \in {"light", "normal", "heavy"} )
    => /\ estimate_out.ok
       /\ IsCeilingOfQuotient(PizzaCountIn(estimate_out.body),
              estimate_in.people_count * ClaimedRate(estimate_in.appetite_level), 8)
       /\ \A q \in 1..estimate_in.people_count :
              PizzaCountFor(q, estimate_in.appetite_level)
                  <= PizzaCountIn(estimate_out.body)

C9_Witness ==
    /\ estimate_in = [via |-> "http", people_count |-> 10, appetite_level |-> "heavy"]
    /\ estimate_out.ok
    /\ PizzaCountIn(estimate_out.body) = 5

\* C10: the loop has no cap of its own: a non-empty list always leads to
\* another round, whatever the number of rounds so far; the final text is
\* printed only for a response with no function_call and no
\* mcp_approval_request item; resolving such a response can only end in
\* the final text; and, the service sending one at last, every turn ends: it
\* prints its final text, unless a handler or a parse raised.
C10_Step ==
    /\ (HasReturned /\ pc = "DISPATCHING" /\ inputs # <<>>) => pc' = "AWAITING_RESPONSE"
    /\ (pc = "DISPATCHING" /\ ~HasPending(output)) =>
          (pc' \in {"DISPATCHING", "FINAL"} /\ response' = response)
C10_NoCapAndTermination ==
    /\ [](pc = "FINAL" => ~HasPending(output))
    /\ [][C10_Step]_vars
    /\ (pc \in {"AWAITING_RESPONSE", "DISPATCHING"}) ~> (pc \in {"FINAL", "raised"})

C10_Witness ==
    /\ pc = "FINAL"
    /\ rounds = MaxRounds
    /\ user_input = <<"h", "i">>

====
